---------------------------- MODULE Spec2Model ----------------------------
(***************************************************************************)
(* A model of the ClickUp time-tracking scripts:                           *)
(*   - ClickUpClient.get_all_tasks / get_table_view / get_views /          *)
(*     get_view_tasks   (view resolution and pagination),                  *)
(*   - extract_tracked_time   (per-task time-entry collection),            *)
(*   - the tag summary script   (filter, explode, group, total row),       *)
(*   - extract_all_cf_info   (custom fields of a task as a dict).          *)
(* Each part has a specification of its own (SpecFetch, SpecCollect,       *)
(* SpecSummary, SpecFields); the variables of the other parts stay at      *)
(* their initial values.                                                   *)
(***************************************************************************)
EXTENDS Integers, Sequences, FiniteSets, TLC

VARIABLES
    \* ---- the remote service and the Python global namespace
    views,        \* list id -> the views the service answers for list/{id}/view
    nTasks,       \* view id -> number of tasks the view holds
    g_list_id,    \* the module-global name `list_id` (<<>> when unbound)
    nMut,         \* view-list changes made by other users during the call
    \* ---- one call of get_all_tasks
    pc,           \* "idle", "resolve", "fetch", "returned", "raised"
    arg,          \* the list_id argument of get_all_tasks
    page,         \* local `page`
    all_tasks,    \* local `all_tasks`
    seen_views,   \* local `views` of get_table_view: the last response
    table_view,   \* local `table_view`: <<>> is None, <<v>> is the view v
    error,        \* the exception that left get_all_tasks, "none" if none
    log,          \* the HTTP requests issued by this call, in order
    \* ---- one call of extract_tracked_time
    timeData,     \* task id -> the entries the service holds for task/{id}/time
    e_bound,      \* whether the global namespace binds the name `e`
    ct_tasks,     \* the `tasks` argument
    ct_pc,        \* "idle", "loop", "retry", "returned", "raised"
    ct_i,         \* position of the loop in ct_tasks (1-based)
    records,      \* local `records`
    time_entries, \* local `time_entries`: the last response body
    ct_error,     \* the exception that left the function, "none" if none
    ct_slept,     \* seconds spent in time.sleep
    ct_log,       \* the time-entry requests issued, in order, with the status
    \* ---- one run of the tag summary script
    data,         \* the entries returned by fetch_clickup_data
    tag_input,    \* the text typed into the tag box, a sequence of characters
    sm_pc,        \* "start", "tags", "filter", "explode", "group", "total",
                  \* "done", "raised"
    df,           \* <<>> while the name df is unbound, <<rows>> once assigned
    search_tags,  \* the list search_tags
    acid_df,      \* the rows kept by the filter
    acid_exploded,\* one row per kept row and tag, cut to the requested tags
    tag_summary,  \* the per-tag table: row labels, column labels, cells
    total_row,    \* <<>> until computed, then <<the Total row>>
    sm_error,     \* the exception that ended the script, "none" if none
    \* ---- one call of extract_all_cf_info
    custom_fields,\* row['custom_fields'], a sequence of custom fields
    cf_pc,        \* "idle", "returned"
    cf_data       \* the dict cf_data: name -> value

fetchVars == <<views, nTasks, g_list_id, nMut, pc, arg, page, all_tasks,
               seen_views, table_view, error, log>>

collectVars == <<timeData, e_bound, ct_tasks, ct_pc, ct_i, records,
                 time_entries, ct_error, ct_slept, ct_log>>

summaryVars == <<data, tag_input, sm_pc, df, search_tags, acid_df,
                 acid_exploded, tag_summary, total_row, sm_error>>

fieldVars == <<custom_fields, cf_pc, cf_data>>

vars == <<fetchVars, collectVars, summaryVars, fieldVars>>

-----------------------------------------------------------------------------
(* Bounds and program constants *)

\* `if len(tasks) < 30` and the service's 30 tasks per page
PageSize == 30

\* the views hold up to MaxPages full pages (plus one task)
MaxPages == 2

\* view-list changes by other users while one call runs
MaxMutations == 1

Lists == {"L1", "L2"}
ViewIds == {"v1", "v2"}
HttpStatuses == {200, 500}

Min(a, b) == IF a < b THEN a ELSE b

TaskCounts == {k * PageSize + r : k \in 0..MaxPages, r \in {0, 1}}

View(i, n) == [id |-> i, name |-> n]

\* the view lists the service may hold for a list
ViewLists ==
    { <<>>,
      <<View("v1", "DoNotAlter")>>,
      <<View("v2", "donotalter"), View("v1", "DoNotAlter")>>,
      <<View("v2", "DoNotAlter"), View("v1", "DoNotAlter")>>,
      <<View("v2", "Board")>> }

-----------------------------------------------------------------------------
(* The remote service *)

\* the tasks of view v, in the service's order
ViewTasks(v) == [i \in 1..nTasks[v] |-> <<v, i>>]

\* view/{v}/task?page=p : the p-th slice of PageSize tasks
PageOf(v, p) ==
    SubSeq(ViewTasks(v), p * PageSize + 1, Min(nTasks[v], (p + 1) * PageSize))

-----------------------------------------------------------------------------
(* ClickUpClient *)

\* the name get_views reads to build its URL: its parameter is called
\* view_id, the body says list_id, which is the module global
GetViewsTarget(view_id) == g_list_id

\* get_table_view's comparison  view['name'] == 'DoNotAlter'
IsDoNotAlter(view) == view.name = "DoNotAlter"

\* get_table_view's scan: the first matching view, None (<<>>) without one
RECURSIVE FirstDoNotAlter(_)
FirstDoNotAlter(vs) ==
    IF vs = <<>> THEN <<>>
    ELSE IF IsDoNotAlter(Head(vs)) THEN <<Head(vs)>>
    ELSE FirstDoNotAlter(Tail(vs))

\* get_all_tasks' stop test  len(tasks) < 30
IsLastPage(tasks) == Len(tasks) < PageSize

ViewsRequest(l) == [kind |-> "views", target |-> l, page |-> -1]
TasksRequest(v, p) == [kind |-> "tasks", target |-> v, page |-> p]

Raise(e) ==
    /\ pc' = "raised"
    /\ error' = e

InitFetch ==
    /\ views \in [Lists -> ViewLists]
    /\ nTasks \in [ViewIds -> TaskCounts]
    /\ g_list_id \in {<<>>} \cup {<<l>> : l \in Lists}
    /\ nMut = 0
    /\ pc = "idle"
    /\ arg = "L1"
    /\ page = 0
    /\ all_tasks = <<>>
    /\ seen_views = <<>>
    /\ table_view = <<>>
    /\ error = "none"
    /\ log = <<>>

\* get_all_tasks(list_id): all_tasks = [], page = 0, enter the loop
Call(l) ==
    /\ pc = "idle"
    /\ pc' = "resolve"
    /\ arg' = l
    /\ page' = 0
    /\ all_tasks' = <<>>
    /\ UNCHANGED <<views, nTasks, g_list_id, nMut, seen_views, table_view,
                   error, log>>
    /\ UNCHANGED <<collectVars, summaryVars, fieldVars>>

\* table_view = self.get_table_view(list_id): get_views builds the URL from
\* the global list_id (NameError when unbound), requests the views
\* (raise_for_status on a failure), then the scan
GetTableView ==
    /\ pc = "resolve"
    /\ IF GetViewsTarget(arg) = <<>>
       THEN /\ Raise("NameError")
            /\ UNCHANGED <<seen_views, table_view, log>>
       ELSE \E status \in HttpStatuses :
              /\ log' = Append(log, ViewsRequest(GetViewsTarget(arg)[1]))
              /\ IF status = 200
                 THEN /\ seen_views' = views[GetViewsTarget(arg)[1]]
                      /\ table_view' = FirstDoNotAlter(seen_views')
                      /\ pc' = "fetch"
                      /\ error' = error
                 ELSE /\ Raise("HTTPError")
                      /\ UNCHANGED <<seen_views, table_view>>
    /\ UNCHANGED <<views, nTasks, g_list_id, nMut, arg, page, all_tasks>>
    /\ UNCHANGED <<collectVars, summaryVars, fieldVars>>

\* tasks = self.get_view_tasks(table_view['id'], params); extend; the stop
\* test; page += 1.  table_view['id'] on None is a TypeError.
GetViewTasks ==
    /\ pc = "fetch"
    /\ IF table_view = <<>>
       THEN /\ Raise("TypeError")
            /\ UNCHANGED <<page, all_tasks, log>>
       ELSE \E status \in HttpStatuses :
              /\ log' = Append(log, TasksRequest(table_view[1].id, page))
              /\ IF status = 200
                 THEN LET tasks == PageOf(table_view[1].id, page) IN
                      /\ all_tasks' = all_tasks \o tasks
                      /\ error' = error
                      /\ IF IsLastPage(tasks)
                         THEN /\ pc' = "returned"
                              /\ page' = page
                         ELSE /\ pc' = "resolve"
                              /\ page' = page + 1
                 ELSE /\ Raise("HTTPError")
                      /\ UNCHANGED <<page, all_tasks>>
    /\ UNCHANGED <<views, nTasks, g_list_id, nMut, arg, seen_views,
                   table_view>>
    /\ UNCHANGED <<collectVars, summaryVars, fieldVars>>

\* another user of the workspace edits the views of a list between two
\* requests of the call
MutateViews ==
    /\ pc \in {"resolve", "fetch"}
    /\ nMut < MaxMutations
    /\ \E l \in Lists, vl \in ViewLists :
         /\ vl # views[l]
         /\ views' = [views EXCEPT ![l] = vl]
    /\ nMut' = nMut + 1
    /\ UNCHANGED <<nTasks, g_list_id, pc, arg, page, all_tasks, seen_views,
                   table_view, error, log>>
    /\ UNCHANGED <<collectVars, summaryVars, fieldVars>>

NextFetch ==
    \/ \E l \in Lists : Call(l)
    \/ GetTableView
    \/ GetViewTasks
    \/ MutateViews

-----------------------------------------------------------------------------
(* Properties of get_all_tasks and get_table_view *)

Finished == pc \in {"returned", "raised"}

PageRequests == SelectSeq(log, LAMBDA r : r.kind = "tasks")

ViewsRequests == SelectSeq(log, LAMBDA r : r.kind = "views")

\* the page numbers requested, in request order
PagesAsked == [i \in 1..Len(PageRequests) |-> PageRequests[i].page]

\* the list of the call keeps one DoNotAlter view for the whole call and
\* every request is answered
ServesPages ==
    /\ nMut = 0
    /\ error # "HTTPError"
    /\ FirstDoNotAlter(views[arg]) # <<>>

\* the id of the DoNotAlter view of the list of the call
TheView == FirstDoNotAlter(views[arg])[1].id

\* the number of the short page that ends the view's page sequence
LastPageOf(v) == nTasks[v] \div PageSize

\* C1: for a list whose DoNotAlter view serves full pages followed by one
\* short page, get_all_tasks ends by returning, has asked for the pages
\* 0, 1, 2, ... up to the short page, each once and in order, and returns the
\* concatenation of those pages.
C1_PagesInOrderAndConcatenated ==
    /\ (pc \in {"resolve", "fetch"} /\ ServesPages)
          => page <= LastPageOf(TheView)
    /\ (Finished /\ ServesPages) =>
          /\ pc = "returned"
          /\ PagesAsked = [i \in 1..(LastPageOf(TheView) + 1) |-> i - 1]
          /\ all_tasks = ViewTasks(TheView)

\* C2: when the tasks of the list fill exactly k >= 1 pages of 30,
\* get_all_tasks issues k+1 page requests (pages 0..k), and it never ends
\* on a page of exactly 30 tasks.
C2_ExtraRequestAfterFullPages ==
    (Finished /\ ServesPages) =>
        /\ \A k \in 1..MaxPages :
              nTasks[TheView] = k * PageSize
                 => PagesAsked = [i \in 1..(k + 1) |-> i - 1]
        /\ PageRequests # <<>> =>
              LET last == PageRequests[Len(PageRequests)]
              IN  Len(PageOf(last.target, last.page)) < PageSize

\* C3: when the list has no view named DoNotAlter (and the global list_id
\* names the list of the call), get_all_tasks fails with ViewNotFound and
\* has issued no page request.
C3_ViewNotFoundRaised ==
    ( /\ Finished
      /\ nMut = 0
      /\ error # "HTTPError"
      /\ g_list_id = <<arg>>
      /\ FirstDoNotAlter(views[arg]) = <<>> )
    => /\ pc = "raised"
       /\ error = "ViewNotFound"
       /\ PageRequests = <<>>

\* C4: one call of get_all_tasks (the global list_id naming its list) asks
\* for the views once, before the first page request, and sends every page
\* request to the same view, whatever happens to the views meanwhile.
C4_ViewResolvedOnce ==
    (g_list_id = <<arg>> /\ PageRequests # <<>>) =>
        /\ Len(ViewsRequests) = 1
        /\ log[1].kind = "views"
        /\ \A i \in 1..Len(PageRequests) :
              PageRequests[i].target = PageRequests[1].target

\* C5: get_table_view(list_id) asks for the views of the list it is given,
\* returns the first view of the response named exactly DoNotAlter, and
\* returns None, raising nothing, when there is none.
C5_TableViewOfGivenList ==
    /\ \A i \in 1..Len(ViewsRequests) : ViewsRequests[i].target = arg
    /\ error # "NameError"
    /\ pc = "fetch" => table_view = FirstDoNotAlter(seen_views)
    /\ pc = "fetch" => \A i \in 1..Len(seen_views) :
          (seen_views[i].name = "DoNotAlter"
             /\ \A j \in 1..(i - 1) : seen_views[j].name # "DoNotAlter")
          => table_view = <<seen_views[i]>>

\* the pagination of get_all_tasks alone: when the global list_id names the
\* list of the call, the call meets C1's statement
PaginationWhenGlobalNamesList ==
    g_list_id = <<arg>> => C1_PagesInOrderAndConcatenated

\* ... and C2's
ExtraRequestWhenGlobalNamesList ==
    g_list_id = <<arg>> => C2_ExtraRequestAfterFullPages

\* get_table_view's scan alone: whatever list was asked, the result is the
\* first view of the response whose name is DoNotAlter, compared exactly
ScanFindsFirstExactMatch ==
    pc = "fetch" =>
        /\ table_view = <<>> <=>
              \A i \in 1..Len(seen_views) : seen_views[i].name # "DoNotAlter"
        /\ \A i \in 1..Len(seen_views) :
              (seen_views[i].name = "DoNotAlter"
                 /\ \A j \in 1..(i - 1) : seen_views[j].name # "DoNotAlter")
              => table_view = <<seen_views[i]>>

-----------------------------------------------------------------------------
(* extract_tracked_time *)

\* tasks handed to one call of extract_tracked_time
MaxCollectTasks == 3

\* round(duration_ms / 3600000, 2)
MsPerHour == 3600000

\* time.sleep(60)
BackoffSeconds == 60

\* datetime.fromtimestamp(int(unix_ms) / 1000).strftime('%Y-%m-%d %H:%M')
MsPerMinute == 60000

TimeStatuses == {200, 429, 500}

Interval(start, time, tags) ==
    [start |-> start, end |-> start + time, time |-> time, tags |-> tags]

\* user is <<>> when the entry has no user payload or no username in it
Entry(user, intervals) == [user |-> user, intervals |-> intervals]

\* the entry lists the service may hold for a task
EntryLists ==
    { <<>>,
      << Entry(<<"ann">>, << Interval(0, 3600000, <<"acid">>),
                             Interval(7200000, 1800000, <<>>) >>) >>,
      << Entry(<<>>, <<>>),
         Entry(<<"bob">>, << Interval(60000, 5400000, <<"acid", "anode">>) >>) >> }

\* format_timestamp: the local time cut to the minute
format_timestamp(unix_ms) == unix_ms \div MsPerMinute

\* round(duration_ms / 3600000, 2), in hundredths of an hour (the data
\* holds no duration half-way between two hundredths)
RoundedHours(duration_ms) ==
    (duration_ms + MsPerHour \div 200) \div (MsPerHour \div 100)

\* ', '.join(tag['name'] for tag in interval.get('tags') or [])
RECURSIVE JoinNames(_)
JoinNames(names) ==
    IF names = <<>> THEN <<>>
    ELSE IF Len(names) = 1 THEN names
    ELSE <<Head(names), ", ">> \o JoinNames(Tail(names))

\* entry.get('user', {}).get('username', 'Unknown')
Assignee(entry) == IF entry.user = <<>> THEN "Unknown" ELSE entry.user[1]

\* the record appended for one interval
IntervalRecord(task_id, entry, interval) ==
    [ TaskID    |-> task_id,
      Assignee  |-> Assignee(entry),
      Duration  |-> RoundedHours(interval.time),
      Start     |-> format_timestamp(interval.start),
      End       |-> format_timestamp(interval.end),
      TagNames  |-> JoinNames(interval.tags) ]

\* a loop that emits one record per entry: that of its first interval
EntryRecordsMerged(task_id, entry) ==
    IF entry.intervals = <<>> THEN <<>>
    ELSE << IntervalRecord(task_id, entry, entry.intervals[1]) >>

\* for interval in entry.get('intervals', []): records.append(...)
EntryRecords(task_id, entry) ==
    [k \in 1..Len(entry.intervals) |->
        IntervalRecord(task_id, entry, entry.intervals[k])]

\* for entry in time_entries: ...
RECURSIVE TaskRecords(_, _)
TaskRecords(task_id, entries) ==
    IF entries = <<>> THEN <<>>
    ELSE EntryRecords(task_id, Head(entries))
            \o TaskRecords(task_id, Tail(entries))

TimeRequest(task_id, status) == [task |-> task_id, status |-> status]

InitCollect ==
    /\ timeData \in [1..MaxCollectTasks -> EntryLists]
    /\ e_bound \in BOOLEAN
    /\ ct_tasks = <<>>
    /\ ct_pc = "idle"
    /\ ct_i = 1
    /\ records = <<>>
    /\ time_entries = <<>>
    /\ ct_error = "none"
    /\ ct_slept = 0
    /\ ct_log = <<>>

\* the loop moves to the next task; after the last one the function
\* returns pd.DataFrame(records)
NextTask ==
    /\ ct_i' = ct_i + 1
    /\ ct_pc' = IF ct_i < Len(ct_tasks) THEN "loop" ELSE "returned"

CollectRaise(e) ==
    /\ ct_pc' = "raised"
    /\ ct_error' = e
    /\ ct_i' = ct_i

\* extract_tracked_time(client, tasks): records = [], enter the loop
CollectCall(n) ==
    /\ ct_pc = "idle"
    /\ ct_tasks' = [i \in 1..n |-> i]
    /\ ct_i' = 1
    /\ records' = <<>>
    /\ ct_pc' = IF n = 0 THEN "returned" ELSE "loop"
    /\ UNCHANGED <<timeData, e_bound, time_entries, ct_error, ct_slept,
                   ct_log>>
    /\ UNCHANGED <<fetchVars, summaryVars, fieldVars>>

\* one pass of the loop body up to the end of the first request's handling:
\* the try block on a 200, the first half of the 429 branch (print, sleep),
\* the else branch (print of the unbound name e) on any other status
FetchTimeEntries ==
    /\ ct_pc = "loop"
    /\ \E status \in TimeStatuses :
         LET task_id == ct_tasks[ct_i] IN
         /\ ct_log' = Append(ct_log, TimeRequest(task_id, status))
         /\ CASE status = 200 ->
                   /\ time_entries' = timeData[task_id]
                   /\ records' = records \o TaskRecords(task_id, time_entries')
                   /\ NextTask
                   /\ UNCHANGED <<ct_error, ct_slept>>
              [] status = 429 ->
                   /\ ct_slept' = ct_slept + BackoffSeconds
                   /\ ct_pc' = "retry"
                   /\ UNCHANGED <<ct_i, records, time_entries, ct_error>>
              [] OTHER ->
                   /\ IF e_bound
                      THEN NextTask /\ ct_error' = ct_error
                      ELSE CollectRaise("NameError")
                   /\ UNCHANGED <<records, time_entries, ct_slept>>
    /\ UNCHANGED <<timeData, e_bound, ct_tasks>>
    /\ UNCHANGED <<fetchVars, summaryVars, fieldVars>>

\* the second half of the 429 branch: the request again, outside any try;
\* its result is assigned and the loop goes on to the next task
RetryTimeEntries ==
    /\ ct_pc = "retry"
    /\ \E status \in TimeStatuses :
         LET task_id == ct_tasks[ct_i] IN
         /\ ct_log' = Append(ct_log, TimeRequest(task_id, status))
         /\ IF status = 200
            THEN /\ time_entries' = timeData[task_id]
                 /\ NextTask
                 /\ ct_error' = ct_error
            ELSE /\ CollectRaise("HTTPError")
                 /\ time_entries' = time_entries
    /\ UNCHANGED <<timeData, e_bound, ct_tasks, records, ct_slept>>
    /\ UNCHANGED <<fetchVars, summaryVars, fieldVars>>

NextCollect ==
    \/ \E n \in 0..MaxCollectTasks : CollectCall(n)
    \/ FetchTimeEntries
    \/ RetryTimeEntries

-----------------------------------------------------------------------------
(* Properties of extract_tracked_time *)

CollectFinished == ct_pc \in {"returned", "raised"}

\* the statuses answered to the requests for task t, in order
StatusesOf(t) ==
    LET reqs == SelectSeq(ct_log, LAMBDA r : r.task = t)
    IN  [i \in 1..Len(reqs) |-> reqs[i].status]

Requested == {ct_log[i].task : i \in 1..Len(ct_log)}

TaskIds == {ct_tasks[i] : i \in 1..Len(ct_tasks)}

\* the records of the tasks of ts that are in keep, in task order
RECURSIVE ExpectedRecords(_, _)
ExpectedRecords(ts, keep) ==
    IF ts = <<>> THEN <<>>
    ELSE (IF Head(ts) \in keep
          THEN TaskRecords(Head(ts), timeData[Head(ts)])
          ELSE <<>>)
         \o ExpectedRecords(Tail(ts), keep)

\* C6: when one task's request is answered 429 twice (request and retry)
\* and every other request is answered 200, extract_tracked_time returns:
\* it has gone through all tasks and its records are those of all the
\* other tasks.
C6_DoubleRateLimitContained ==
    ( /\ CollectFinished
      /\ \E t \in Requested : StatusesOf(t) = <<429, 429>>
      /\ \A t \in Requested : StatusesOf(t) \in {<<200>>, <<429, 429>>} )
    => /\ ct_pc = "returned"
       /\ Requested = TaskIds
       /\ records = ExpectedRecords(ct_tasks,
                       {t \in TaskIds : StatusesOf(t) = <<200>>})

\* C7: when a first request answered 429 is followed, after one wait of
\* the backoff, by one retry answered 200, the task's entries are processed
\* like those of any other task: the records hold one record per interval
\* of every task.
C7_RetriedEntriesProcessed ==
    ( /\ CollectFinished
      /\ \E t \in Requested : StatusesOf(t) = <<429, 200>>
      /\ \A t \in Requested : StatusesOf(t) \in {<<200>>, <<429, 200>>} )
    => /\ ct_pc = "returned"
       /\ Requested = TaskIds
       /\ ct_slept = BackoffSeconds
             * Cardinality({t \in TaskIds : StatusesOf(t) = <<429, 200>>})
       /\ records = ExpectedRecords(ct_tasks, TaskIds)

\* C8: when a task's request fails with a status other than 429, that task
\* alone is skipped: the function returns, it has not retried, it has
\* requested every later task, and the records are those of the other tasks.
C8_OtherFailureSkipsTask ==
    ( /\ CollectFinished
      /\ \E t \in Requested : StatusesOf(t) = <<500>>
      /\ \A t \in Requested : StatusesOf(t) \in {<<200>>, <<500>>} )
    => /\ ct_pc = "returned"
       /\ Requested = TaskIds
       /\ ct_slept = 0
       /\ records = ExpectedRecords(ct_tasks,
                       {t \in TaskIds : StatusesOf(t) = <<200>>})

\* what the loop does do: whenever the function returns, the records are
\* those of the tasks whose first request was answered 200
RecordsOfFirstTrySuccesses ==
    ct_pc = "returned" =>
        records = ExpectedRecords(ct_tasks,
                     {t \in TaskIds : StatusesOf(t)[1] = 200})

\* C8's statement, when the global namespace binds the name e
OtherFailureSkippedWhenEBound ==
    e_bound => C8_OtherFailureSkipsTask

\* every request of the call was answered 200
AllFetchesSucceed == \A i \in 1..Len(ct_log) : ct_log[i].status = 200

\* the number of intervals of the first n entries of a list
RECURSIVE IntervalsBefore(_, _)
IntervalsBefore(entries, n) ==
    IF n = 0 THEN 0
    ELSE Len(entries[n].intervals) + IntervalsBefore(entries, n - 1)

\* the number of intervals of the first n tasks of the call
RECURSIVE IntervalsOfTasks(_)
IntervalsOfTasks(n) ==
    IF n = 0 THEN 0
    ELSE LET entries == timeData[ct_tasks[n]]
         IN  IntervalsBefore(entries, Len(entries)) + IntervalsOfTasks(n - 1)

\* the place, in task order then entry order then interval order, of
\* interval k of entry e of the a-th task
RecordIndex(a, e, k) ==
    IntervalsOfTasks(a - 1) + IntervalsBefore(timeData[ct_tasks[a]], e - 1) + k

\* C14: when every request is answered 200, extract_tracked_time returns
\* and its records are one per interval of every entry of every task, in
\* task order, then entry order, then interval order (so an entry without
\* intervals has none and two intervals of an entry have one each), each
\* with the id of its task and the assignee, times and duration of its
\* interval.
C14_OneRecordPerInterval ==
    (CollectFinished /\ AllFetchesSucceed) =>
       /\ ct_pc = "returned"
       /\ Len(records) = IntervalsOfTasks(Len(ct_tasks))
       /\ \A a \in 1..Len(ct_tasks) :
            LET entries == timeData[ct_tasks[a]] IN
            \A e \in 1..Len(entries) :
              \A k \in 1..Len(entries[e].intervals) :
                 LET interval == entries[e].intervals[k]
                     record == records[RecordIndex(a, e, k)]
                 IN  /\ record.TaskID = ct_tasks[a]
                     /\ record.Assignee = Assignee(entries[e])
                     /\ record.Start = format_timestamp(interval.start)
                     /\ record.End = format_timestamp(interval.end)
                     /\ record.Duration = RoundedHours(interval.time)

\* a call over several tasks, all answered 200, one with an entry of two
\* intervals and one with an entry without intervals
C14_Witness ==
    /\ ct_pc = "returned"
    /\ AllFetchesSucceed
    /\ Len(ct_tasks) >= 2
    /\ \E a, b \in 1..Len(ct_tasks) :
          /\ \E e \in 1..Len(timeData[ct_tasks[a]]) :
                Len(timeData[ct_tasks[a]][e].intervals) = 2
          /\ \E e \in 1..Len(timeData[ct_tasks[b]]) :
                Len(timeData[ct_tasks[b]][e].intervals) = 0
    /\ Len(records) >= 3

-----------------------------------------------------------------------------
(* The tag summary script *)

\* entries in one response of fetch_clickup_data
MaxEntries == 2

\* a tag name and the typed text are sequences of one-character strings
Lower(c) == CASE c = "A" -> "a" [] c = "B" -> "b" [] OTHER -> c

\* str.lower()
LowerStr(str) == [i \in 1..Len(str) |-> Lower(str[i])]

\* str.strip(): the blanks at both ends removed
RECURSIVE LStrip(_)
LStrip(str) ==
    IF str # <<>> /\ Head(str) = " " THEN LStrip(Tail(str)) ELSE str

RECURSIVE RStrip(_)
RStrip(str) ==
    IF str # <<>> /\ str[Len(str)] = " "
    THEN RStrip(SubSeq(str, 1, Len(str) - 1))
    ELSE str

Strip(str) == RStrip(LStrip(str))

\* str.split(","): the pieces between the commas, empty pieces included
RECURSIVE SplitComma(_, _)
SplitComma(str, piece) ==
    IF str = <<>> THEN <<piece>>
    ELSE IF Head(str) = "," THEN <<piece>> \o SplitComma(Tail(str), <<>>)
    ELSE SplitComma(Tail(str), Append(piece, Head(str)))

\* [tag.strip() for tag in tag_input.split(",") if tag.strip()]
SearchTags(text) ==
    LET pieces   == SplitComma(text, <<>>)
        stripped == [i \in 1..Len(pieces) |-> Strip(pieces[i])]
    IN  SelectSeq(stripped, LAMBDA piece : piece # <<>>)

\* x in search_tags
InList(x, list) == \E i \in 1..Len(list) : list[i] = x

\* the texts typed into the tag box
TagInputs ==
    { <<>>,
      <<"a">>,
      <<"a", ",", "b">>,
      <<" ", "a", " ", ",", "b", " ">>,
      <<"A">>,
      <<"A", ",", "B">>,
      <<"A", ",", "b">>,
      <<"a", ",", ",", "a">>,
      <<" ", ",", " ">> }

TagList(names) == [isList |-> TRUE, names |-> names]
NoTagList == [isList |-> FALSE, names |-> <<>>]

TimeEntry(id, billable, duration, tags) ==
    [id |-> id, billable |-> billable, duration |-> duration, tags |-> tags]

\* the entries the service may return
EntryPool ==
    { TimeEntry(1, TRUE, 7200000, TagList(<< <<"a">>, <<"b">> >>)),
      TimeEntry(2, FALSE, 3600000, TagList(<< <<"A">> >>)),
      TimeEntry(3, FALSE, 15000, TagList(<< <<"a">>, <<"b">> >>)),
      TimeEntry(4, TRUE, 0, TagList(<< <<"b">> >>)),
      TimeEntry(5, TRUE, 3600000, TagList(<< <<"A">>, <<"B">> >>)),
      TimeEntry(6, FALSE, 15000, NoTagList) }

\* DataFrame.round(2) of a number of hours kept in milliseconds: the
\* nearest hundredth of an hour (no value of the data lies half-way)
RoundHours(ms) == (ms + MsPerHour \div 200) \div (MsPerHour \div 100)

RECURSIVE GCD(_, _)
GCD(a, b) == IF b = 0 THEN a ELSE GCD(b, a % b)

\* (billable / total) * 100 rounded to 2 decimals, in hundredths of a
\* percent; 0/0 is NaN
Percent(billable, total) ==
    IF total = 0 THEN [nan |-> TRUE, v |-> 0]
    ELSE LET g == GCD(billable, total)
             b == billable \div g
             t == total \div g
         IN  [nan |-> FALSE, v |-> (b * 20000 + t) \div (2 * t)]

\* one row of df: the columns the summary reads
FrameRow(entry) ==
    [ id       |-> entry.id,
      Billable |-> IF entry.billable THEN "Billable" ELSE "Non-Billable",
      Duration |-> entry.duration,
      tags     |-> entry.tags,
      TagName  |-> IF entry.tags.isList
                   THEN [k \in 1..Len(entry.tags.names) |->
                            LowerStr(entry.tags.names[k])]
                   ELSE <<>> ]

\* the filter's lambda:
\* any(tag["name"] in search_tags for tag in tags) if isinstance(tags, list)
KeepRow(row, tags) ==
    /\ row.tags.isList
    /\ \E k \in 1..Len(row.tags.names) : InList(row.tags.names[k], tags)

\* DataFrame.explode("TagName"): one row per element of the list, the
\* element in a one-element sequence; a row with an empty list gives one row
\* whose TagName is NaN (<<>>)
ExplodeRow(row) ==
    IF row.TagName = <<>> THEN << row >>
    ELSE [k \in 1..Len(row.TagName) |->
             [row EXCEPT !.TagName = << row.TagName[k] >>]]

RECURSIVE Explode(_)
Explode(rows) ==
    IF rows = <<>> THEN <<>>
    ELSE ExplodeRow(Head(rows)) \o Explode(Tail(rows))

\* acid_exploded["TagName"].isin(search_tags)
IsRequested(xrow, tags) ==
    xrow.TagName # <<>> /\ InList(xrow.TagName[1], tags)

\* Series.sum() of the column Duration (hours)
RECURSIVE SumDuration(_)
SumDuration(rows) ==
    IF rows = <<>> THEN 0
    ELSE Head(rows).Duration + SumDuration(Tail(rows))

\* drop_duplicates(subset="id"): the first row of every id
RECURSIVE DropDuplicates(_, _)
DropDuplicates(rows, seen) ==
    IF rows = <<>> THEN <<>>
    ELSE IF Head(rows).id \in seen THEN DropDuplicates(Tail(rows), seen)
    ELSE <<Head(rows)>>
            \o DropDuplicates(Tail(rows), seen \cup {Head(rows).id})

\* groupby(["TagName", "Billable"])["Duration (hours)"].sum()
\*    .unstack(fill_value=0), then the column Total Hours
GroupCell(xrows, tag, label) ==
    SumDuration(SelectSeq(xrows,
        LAMBDA r : r.TagName[1] = tag /\ r.Billable = label))

EmptyTable == [rows |-> {}, cols |-> {}, cell |-> <<>>]

\* the table of lines 89-92 of the app, rounded; the column % Billable needs
\* the column Billable
GroupTable(xrows) ==
    LET rows == {xrows[i].TagName[1] : i \in 1..Len(xrows)}
        labels == {xrows[i].Billable : i \in 1..Len(xrows)}
        total(t) == GroupCell(xrows, t, "Billable")
                      + GroupCell(xrows, t, "Non-Billable")
    IN  [ rows |-> rows,
          cols |-> labels \cup {"Total Hours", "% Billable"},
          cell |-> [t \in rows |->
             [ Billable    |-> RoundHours(GroupCell(xrows, t, "Billable")),
               NonBillable |-> RoundHours(GroupCell(xrows, t, "Non-Billable")),
               Total       |-> RoundHours(total(t)),
               Pct         |-> Percent(GroupCell(xrows, t, "Billable"),
                                       total(t)) ]] ]

\* total_row of lines 95-101, and the round(2) of line 103
TotalRow(rows) ==
    LET dedup_total == DropDuplicates(rows, {})
        billable == SumDuration(SelectSeq(dedup_total,
                        LAMBDA r : r.Billable = "Billable"))
        non_billable == SumDuration(SelectSeq(dedup_total,
                        LAMBDA r : r.Billable = "Non-Billable"))
        total == billable + non_billable
    IN  [ Billable    |-> RoundHours(billable),
          NonBillable |-> RoundHours(non_billable),
          Total       |-> RoundHours(total),
          Pct         |-> IF total > 0
                          THEN Percent(billable, total)
                          ELSE [nan |-> FALSE, v |-> 0] ]

RECURSIVE SeqsUpTo(_, _)
SeqsUpTo(S, n) ==
    IF n = 0 THEN {<<>>}
    ELSE SeqsUpTo(S, n - 1)
           \cup {Append(q, x) : q \in {r \in SeqsUpTo(S, n - 1) : Len(r) = n - 1},
                                x \in S}

InitSummary ==
    /\ data \in SeqsUpTo(EntryPool, MaxEntries)
    /\ tag_input \in TagInputs
    /\ sm_pc = "start"
    /\ df = <<>>
    /\ search_tags = <<>>
    /\ acid_df = <<>>
    /\ acid_exploded = <<>>
    /\ tag_summary = EmptyTable
    /\ total_row = <<>>
    /\ sm_error = "none"

SummaryRaise(e) ==
    /\ sm_pc' = "raised"
    /\ sm_error' = e

\* if data: df = pd.DataFrame(data) and the derived columns
BuildFrame ==
    /\ sm_pc = "start"
    /\ df' = IF data # <<>>
             THEN << [i \in 1..Len(data) |-> FrameRow(data[i])] >>
             ELSE df
    /\ sm_pc' = "tags"
    /\ UNCHANGED <<data, tag_input, search_tags, acid_df, acid_exploded,
                   tag_summary, total_row, sm_error>>
    /\ UNCHANGED <<fetchVars, collectVars, fieldVars>>

\* tag_input = st.text_input(...); search_tags = [...]
ReadTags ==
    /\ sm_pc = "tags"
    /\ search_tags' = SearchTags(tag_input)
    /\ sm_pc' = "filter"
    /\ UNCHANGED <<data, tag_input, df, acid_df, acid_exploded, tag_summary,
                   total_row, sm_error>>
    /\ UNCHANGED <<fetchVars, collectVars, fieldVars>>

\* acid_df = df[df["tags"].apply(...)].copy(); NameError while df is unbound
FilterEntries ==
    /\ sm_pc = "filter"
    /\ IF df = <<>>
       THEN /\ SummaryRaise("NameError")
            /\ acid_df' = acid_df
       ELSE /\ acid_df' = SelectSeq(df[1], LAMBDA r : KeepRow(r, search_tags))
            /\ sm_pc' = "explode"
            /\ sm_error' = sm_error
    /\ UNCHANGED <<data, tag_input, df, search_tags, acid_exploded,
                   tag_summary, total_row>>
    /\ UNCHANGED <<fetchVars, collectVars, fieldVars>>

\* acid_exploded = acid_df.explode("TagName"), cut to isin(search_tags)
ExplodeTags ==
    /\ sm_pc = "explode"
    /\ acid_exploded' = SelectSeq(Explode(acid_df),
                            LAMBDA r : IsRequested(r, search_tags))
    /\ sm_pc' = "group"
    /\ UNCHANGED <<data, tag_input, df, search_tags, acid_df, tag_summary,
                   total_row, sm_error>>
    /\ UNCHANGED <<fetchVars, collectVars, fieldVars>>

\* tag_summary = groupby ... unstack; Total Hours; % Billable; round(2).
\* tag_summary["Billable"] is a KeyError when no exploded row is billable.
GroupByTag ==
    /\ sm_pc = "group"
    /\ IF "Billable" \in GroupTable(acid_exploded).cols
       THEN /\ tag_summary' = GroupTable(acid_exploded)
            /\ sm_pc' = "total"
            /\ sm_error' = sm_error
       ELSE /\ SummaryRaise("KeyError")
            /\ tag_summary' = tag_summary
    /\ UNCHANGED <<data, tag_input, df, search_tags, acid_df, acid_exploded,
                   total_row>>
    /\ UNCHANGED <<fetchVars, collectVars, fieldVars>>

\* dedup_total, total_row, tag_summary.loc["Total"] = ...
AddTotalRow ==
    /\ sm_pc = "total"
    /\ total_row' = << TotalRow(acid_df) >>
    /\ sm_pc' = "done"
    /\ UNCHANGED <<data, tag_input, df, search_tags, acid_df, acid_exploded,
                   tag_summary, sm_error>>
    /\ UNCHANGED <<fetchVars, collectVars, fieldVars>>

NextSummary ==
    \/ BuildFrame
    \/ ReadTags
    \/ FilterEntries
    \/ ExplodeTags
    \/ GroupByTag
    \/ AddTotalRow

-----------------------------------------------------------------------------
(* Properties of the tag summary *)

Range(q) == {q[i] : i \in 1..Len(q)}

\* the rows of df
Frame == IF df = <<>> THEN <<>> ELSE df[1]

\* the row has a tag whose name is t, as typed
Carries(row, t) ==
    row.tags.isList /\ \E k \in 1..Len(row.tags.names) : row.tags.names[k] = t

\* the row has a tag whose lower-cased name is t
CarriesLower(row, t) ==
    row.tags.isList
      /\ \E k \in 1..Len(row.tags.names) : LowerStr(row.tags.names[k]) = t

\* the rows of df that carry t
RowsCarrying(t) == SelectSeq(Frame, LAMBDA r : Carries(r, t))

RowsCarryingLower(t) == SelectSeq(Frame, LAMBDA r : CarriesLower(r, t))

\* the hours of the rows that have the billable label
HoursOf(rows, label) ==
    SumDuration(SelectSeq(rows, LAMBDA r : r.Billable = label))

\* the rows with every entry id kept once
Once(rows) == DropDuplicates(rows, {})

\* the row of tag t in the table shows these billable and non-billable hours
RowShows(t, billable, non_billable) ==
    /\ t \in tag_summary.rows
    /\ tag_summary.cell[t].Billable = RoundHours(billable)
    /\ tag_summary.cell[t].NonBillable = RoundHours(non_billable)

\* C9: in a finished summary, every requested tag carried by some entry has
\* a row holding the full hours of every entry that carries it (an entry
\* with several requested tags is in the row of each), and the Total row
\* holds the hours of every entry that carries a requested tag, each entry
\* id once.
C9_EachTagRowAndTotalOnce ==
    sm_pc = "done" =>
      /\ \A t \in Range(search_tags) :
            (\E i \in 1..Len(Frame) : Carries(Frame[i], t)) =>
               RowShows(t, HoursOf(RowsCarrying(t), "Billable"),
                           HoursOf(RowsCarrying(t), "Non-Billable"))
      /\ LET matched == SelectSeq(Frame,
                LAMBDA r : \E t \in Range(search_tags) : Carries(r, t))
         IN  /\ total_row[1].Billable
                   = RoundHours(HoursOf(Once(matched), "Billable"))
             /\ total_row[1].NonBillable
                   = RoundHours(HoursOf(Once(matched), "Non-Billable"))

\* the requested tags of the specification: trimmed, non-empty, lower-cased
NormalizedTags ==
    {LowerStr(piece) : piece \in Range(SearchTags(tag_input))}

\* C10: matching ignores letter case: the requested tags are the typed
\* ones trimmed and lower-cased; an entry is kept exactly when the
\* lower-cased name of one of its tags is a requested tag; and it is counted
\* in the row of exactly those requested tags.
C10_CaseInsensitiveMatching ==
    sm_pc = "done" =>
      /\ Range(search_tags) = NormalizedTags
      /\ \A i \in 1..Len(Frame) :
            Frame[i] \in Range(acid_df)
               <=> \E t \in NormalizedTags : CarriesLower(Frame[i], t)
      /\ \A t \in NormalizedTags :
            (\E i \in 1..Len(Frame) : CarriesLower(Frame[i], t)) =>
               RowShows(t, HoursOf(RowsCarryingLower(t), "Billable"),
                           HoursOf(RowsCarryingLower(t), "Non-Billable"))

\* every tag name of the data and every character typed is lower case
AllLowerCase ==
    /\ \A i \in 1..Len(data) : \A k \in 1..Len(data[i].tags.names) :
          LowerStr(data[i].tags.names[k]) = data[i].tags.names[k]
    /\ LowerStr(tag_input) = tag_input

\* the summary meets C9's and C10's statements on lower-case data and input
SummaryWhenAllLowerCase ==
    AllLowerCase => (C9_EachTagRowAndTotalOnce /\ C10_CaseInsensitiveMatching)

\* the script has run to its end or has stopped on an exception
SummaryFinished == sm_pc \in {"done", "raised"}

\* a row of zeros
ZeroRow ==
    [ Billable |-> 0, NonBillable |-> 0, Total |-> 0,
      Pct |-> [nan |-> FALSE, v |-> 0] ]

\* C11: when the typed text holds no tag (it is empty or all blanks and
\* commas) and there are entries, the summary ends without an exception,
\* with no per-tag row and a Total row of zeros.
C11_EmptyTagsGiveEmptySummary ==
    (SummaryFinished /\ data # <<>> /\ SearchTags(tag_input) = <<>>) =>
       /\ sm_pc = "done"
       /\ sm_error = "none"
       /\ tag_summary.rows = {}
       /\ total_row = << ZeroRow >>

\* without a requested tag the script stops at the column Billable
EmptyTagsRaiseKeyError ==
    (SummaryFinished /\ data # <<>> /\ SearchTags(tag_input) = <<>>) =>
       (sm_pc = "raised" /\ sm_error = "KeyError")

\* the hours, in milliseconds, behind the row of tag t
TagMs(t, label) == GroupCell(acid_exploded, t, label)

\* total = billable + non-billable, and the percentage is a number: the
\* share of the billable hours, or 0 when there are no hours
RowConsistent(row, billable, non_billable) ==
    /\ row.Total = row.Billable + row.NonBillable
    /\ ~row.Pct.nan
    /\ billable + non_billable = 0 => row.Pct.v = 0
    /\ billable + non_billable > 0 =>
          row.Pct = Percent(billable, billable + non_billable)

\* C12: in a finished summary every per-tag row and the Total row have
\* total = billable + non-billable hours and a percentage that is
\* billable / total * 100 when the total is positive and 0 when it is 0
\* (never the result of dividing by zero).
C12_RowsConsistentAndPercentGuarded ==
    sm_pc = "done" =>
       /\ \A t \in tag_summary.rows :
             RowConsistent(tag_summary.cell[t], TagMs(t, "Billable"),
                           TagMs(t, "Non-Billable"))
       /\ RowConsistent(total_row[1],
                        HoursOf(Once(acid_df), "Billable"),
                        HoursOf(Once(acid_df), "Non-Billable"))

\* the Total row alone meets C12's statement
TotalRowConsistent ==
    sm_pc = "done" =>
       RowConsistent(total_row[1], HoursOf(Once(acid_df), "Billable"),
                     HoursOf(Once(acid_df), "Non-Billable"))

\* the requested tags all match non-billable entries only: no summary
AllNonBillableRaisesKeyError ==
    (sm_pc \in {"total", "done"}) =>
       \E j \in 1..Len(acid_exploded) : acid_exploded[j].Billable = "Billable"

\* the sum of the column Total Hours over the per-tag rows in S
RECURSIVE RowsTotal(_)
RowsTotal(S) ==
    IF S = {} THEN 0
    ELSE LET t == CHOOSE x \in S : TRUE
         IN  tag_summary.cell[t].Total + RowsTotal(S \ {t})

\* the entry ids behind the Total row and behind the per-tag rows
TotalIds == {acid_df[i].id : i \in 1..Len(acid_df)}
RowIds == {acid_exploded[j].id : j \in 1..Len(acid_exploded)}

\* C15: in a finished summary the Total row and the per-tag rows cover the
\* same entries, so the Total row's hours are at most the sum of the per-tag
\* rows' hours and at least the hours of every per-tag row.
C15_TotalAndRowsCoverSameEntries ==
    sm_pc = "done" =>
       /\ TotalIds = RowIds
       /\ total_row[1].Total <= RowsTotal(tag_summary.rows)
       /\ \A t \in tag_summary.rows :
             tag_summary.cell[t].Total <= total_row[1].Total

\* no entry id occurs twice in the data
DistinctIds ==
    \A i, j \in 1..Len(data) : data[i].id = data[j].id => i = j

\* C15's statement holds on lower-case data without repeated ids
CoverageWhenLowerCaseAndDistinct ==
    (AllLowerCase /\ DistinctIds) => C15_TotalAndRowsCoverSameEntries

\* every entry behind a per-tag row is behind the Total row
RowEntriesAreInTotal ==
    sm_pc = "done" => RowIds \subseteq TotalIds

-----------------------------------------------------------------------------
(* extract_all_cf_info *)

\* custom fields of one task
MaxFields == 3

FieldNames == {"Client", "Root cause"}

\* cf.get("value"): <<>> is None (the field has no value set)
FieldValues == {<<>>, <<"X">>, <<"Y">>}

CustomField(name, value) == [name |-> name, value |-> value]

CustomFields == {CustomField(n, v) : n \in FieldNames, v \in FieldValues}

\* extract_cf_info(cf): the keys that extract_all_cf_info reads
extract_cf_info(cf) == [name |-> cf.name, value |-> cf.value]

\* a dict assignment that leaves the value of a key already present
SetItemKeepFirst(dict, key, value) ==
    [k \in DOMAIN dict \cup {key} |->
        IF k \in DOMAIN dict THEN dict[k] ELSE value]

\* dict[key] = value
SetItem(dict, key, value) ==
    [k \in DOMAIN dict \cup {key} |-> IF k = key THEN value ELSE dict[k]]

\* the empty dict {}
EmptyDict == [k \in {} |-> <<>>]

\* for cf in row['custom_fields']: cf_data[name] = value, from the dict acc
RECURSIVE StoreFields(_, _)
StoreFields(fields, acc) ==
    IF fields = <<>> THEN acc
    ELSE LET extracted_info == extract_cf_info(Head(fields))
         IN  StoreFields(Tail(fields),
                SetItem(acc, extracted_info.name, extracted_info.value))

extract_all_cf_info(fields) == StoreFields(fields, EmptyDict)

InitFields ==
    /\ custom_fields \in SeqsUpTo(CustomFields, MaxFields)
    /\ cf_pc = "idle"
    /\ cf_data = EmptyDict

\* cf_data = extract_all_cf_info(row)
ExtractAllCfInfo ==
    /\ cf_pc = "idle"
    /\ cf_data' = extract_all_cf_info(custom_fields)
    /\ cf_pc' = "returned"
    /\ UNCHANGED custom_fields
    /\ UNCHANGED <<fetchVars, collectVars, summaryVars>>

NextFields == ExtractAllCfInfo

-----------------------------------------------------------------------------
(* Properties of extract_all_cf_info *)

\* the names that occur in the input
NamesOf(fields) == {fields[i].name : i \in 1..Len(fields)}

\* the place of the last field named n
LastNamed(fields, n) ==
    CHOOSE i \in 1..Len(fields) :
       /\ fields[i].name = n
       /\ \A j \in (i + 1)..Len(fields) : fields[j].name # n

\* C13: the dict returned by extract_all_cf_info has exactly the names
\* that occur in the custom fields as keys, and maps each name to the value
\* of the last custom field of that name.
C13_LastValueOfEachName ==
    cf_pc = "returned" =>
       /\ DOMAIN cf_data = NamesOf(custom_fields)
       /\ \A n \in NamesOf(custom_fields) :
             cf_data[n] = custom_fields[LastNamed(custom_fields, n)].value

\* a returned call on fields of both names, one name twice with two values
C13_Witness ==
    /\ cf_pc = "returned"
    /\ NamesOf(custom_fields) = FieldNames
    /\ \E i, j \in 1..Len(custom_fields) :
          /\ i < j
          /\ custom_fields[i].name = custom_fields[j].name
          /\ custom_fields[i].value # custom_fields[j].value
          /\ cf_data[custom_fields[i].name] = custom_fields[j].value

-----------------------------------------------------------------------------
(* The specifications *)

IdleFetch ==
    /\ views = [l \in Lists |-> <<>>]
    /\ nTasks = [v \in ViewIds |-> 0]
    /\ g_list_id = <<>>
    /\ nMut = 0
    /\ pc = "idle"
    /\ arg = "L1"
    /\ page = 0
    /\ all_tasks = <<>>
    /\ seen_views = <<>>
    /\ table_view = <<>>
    /\ error = "none"
    /\ log = <<>>

IdleCollect ==
    /\ timeData = [t \in 1..MaxCollectTasks |-> <<>>]
    /\ e_bound = FALSE
    /\ ct_tasks = <<>>
    /\ ct_pc = "idle"
    /\ ct_i = 1
    /\ records = <<>>
    /\ time_entries = <<>>
    /\ ct_error = "none"
    /\ ct_slept = 0
    /\ ct_log = <<>>

IdleSummary ==
    /\ data = <<>>
    /\ tag_input = <<>>
    /\ sm_pc = "start"
    /\ df = <<>>
    /\ search_tags = <<>>
    /\ acid_df = <<>>
    /\ acid_exploded = <<>>
    /\ tag_summary = EmptyTable
    /\ total_row = <<>>
    /\ sm_error = "none"

IdleFields ==
    /\ custom_fields = <<>>
    /\ cf_pc = "idle"
    /\ cf_data = EmptyDict

FetchStart == InitFetch /\ IdleCollect /\ IdleSummary /\ IdleFields

CollectStart == InitCollect /\ IdleFetch /\ IdleSummary /\ IdleFields

SummaryStart == InitSummary /\ IdleFetch /\ IdleCollect /\ IdleFields

FieldsStart == InitFields /\ IdleFetch /\ IdleCollect /\ IdleSummary

SpecFetch == FetchStart /\ [][NextFetch]_vars

SpecCollect == CollectStart /\ [][NextCollect]_vars

SpecSummary == SummaryStart /\ [][NextSummary]_vars

SpecFields == FieldsStart /\ [][NextFields]_vars

=============================================================================
